---- MODULE Spec2Model ----
(***************************************************************************)
(* NReporter (src/nreporter/nreporter.py): an accounting object that       *)
(* records row / group / non-null counts of a dataset after each step of a *)
(* chain of transformations, and the delta from the previous step.         *)
(*                                                                         *)
(* A Python value that may be a string or a list is a tagged record:       *)
(*   Str(s) = [kind |-> "str", s |-> s],  Lst(l) = [kind |-> "list", ...]  *)
(* A dataset (pandas DataFrame) is                                         *)
(*   [columns |-> sequence of column names, index_name |-> name or None,   *)
(*    rows |-> sequence of [idx |-> index label, g |-> cell, x |-> cell]]  *)
(* where the cell of a column the dataset does not have is NaN and is      *)
(* never read.  The counts table (self._counts) is                         *)
(*   [vars |-> tracked variables in column order,                          *)
(*    rows |-> sequence of [step, desc, N |-> counts, D |-> deltas]]       *)
(*                                                                         *)
(* ctor       the constructor's arguments and the exception it raised      *)
(* _groupby, _nancols, _counts, _current_i   the fields of the reporter    *)
(* last       the call just made: its arguments, the exception it raised   *)
(*            and the caller's dataset after it (apply_mask works in       *)
(*            place); Idle between two calls                               *)
(* ret        the dataset the call returned                                *)
(* displayed  what report() displayed                                      *)
(***************************************************************************)
EXTENDS Integers, Sequences, FiniteSets, TLC

VARIABLES ctor, _groupby, _nancols, _counts, _current_i, last, ret, displayed

vars == <<ctor, _groupby, _nancols, _counts, _current_i, last, ret, displayed>>

reporter == <<ctor, _groupby, _nancols, _counts, _current_i>>

\* ---------------------------------------------------------------- bounds
MaxRows == 2     \* rows of a dataset passed to the reporter
MaxSteps == 2    \* calls are made while current_i <= MaxSteps
MaxArgLen == 2   \* length of the lists handed to check_arg_value

\* ---------------------------------------------------------------- values
NaN == -1000            \* np.nan / the first row of DataFrame.diff
None == "None"          \* Python's None (an unnamed index, a missing description)
_ROW_LABEL == "rows"
IndexLabels == {0, 1}   \* labels of an unnamed index (need not be unique)
GroupIds == {1, 2}      \* values of the grouping column / index level "g"
CellVals == {NaN, 1, 2} \* values of the data column "x"

IsNull(v) == v = NaN

Str(s) == [kind |-> "str", s |-> s]
Lst(l) == [kind |-> "list", l |-> l]

RECURSIVE SeqToSet(_)
SeqToSet(s) == IF s = <<>> THEN {} ELSE {Head(s)} \cup SeqToSet(Tail(s))

\* val in valid_vals, for a Python list valid_vals
InList(v, l) == \E i \in 1..Len(l) : l[i] = v

\* iterable(arg): an iterable that is not a string
iterable(arg) == arg.kind = "list"

\* check_arg_value with any() in place of all()
check_arg_value_any(arg_vals, valid_vals) ==
    LET vals == IF ~iterable(arg_vals) THEN <<arg_vals.s>> ELSE arg_vals.l
    IN  ~(\E i \in 1..Len(vals) : InList(vals[i], valid_vals))

\* check_arg_value: TRUE when it raises ArgumentValueError
check_arg_value(arg_vals, valid_vals) ==
    LET vals == IF ~iterable(arg_vals) THEN <<arg_vals.s>> ELSE arg_vals.l
    IN  ~(\A i \in 1..Len(vals) : InList(vals[i], valid_vals))

\* ArgumentValueError.__str__ is not modelled: the exception is its name
ArgumentValueError == "ArgumentValueError"

\* -------------------------------------------------------------- datasets
Shapes == { [columns |-> <<"g", "x">>, index_name |-> None],
            [columns |-> <<"g">>,      index_name |-> None],
            [columns |-> <<"x">>,      index_name |-> None],
            [columns |-> <<"x">>,      index_name |-> "g"] }

RowsOf(shape) ==
    [idx : IF shape.index_name = "g" THEN GroupIds ELSE IndexLabels,
     g   : IF InList("g", shape.columns) THEN GroupIds ELSE {NaN},
     x   : IF InList("x", shape.columns) THEN CellVals ELSE {NaN}]

DataFrames ==
    UNION { { [columns |-> sh.columns, index_name |-> sh.index_name, rows |-> rs] :
              rs \in UNION { [1..n -> RowsOf(sh)] : n \in 0..MaxRows } } :
            sh \in Shapes }

Cell(r, c) == IF c = "g" THEN r.g ELSE r.x

\* the values a name resolves to inside groupby / query: a column, else an index level
Resolves(df, v) == InList(v, df.columns) \/ v = df.index_name
Value(df, r, v) == IF InList(v, df.columns) THEN Cell(r, v) ELSE r.idx

\* df.groupby(v).ngroups: the distinct keys, null keys dropped
ngroups(df, v) ==
    Cardinality({ Value(df, df.rows[i], v) : i \in 1..Len(df.rows) } \ {NaN})

\* df[v].size in place of df[v].count()
count_size(df, v) == Len(df.rows)

\* df[v].count(): the non-null cells of column v
count(df, v) ==
    Cardinality({ i \in 1..Len(df.rows) : ~IsNull(Cell(df.rows[i], v)) })

\* the expressions handed to DataFrame.query, and the rows they select
Exprs == {"x > 1"}
ExprVar(expr) == IF expr = "x > 1" THEN "x" ELSE "g"
Holds(df, expr, r) ==
    LET v == Value(df, r, ExprVar(expr))
    IN  IF expr = "x > 1" THEN ~IsNull(v) /\ v > 1 ELSE ~IsNull(v) /\ v = 1

query(df, expr) ==
    [df EXCEPT !.rows = SelectSeq(df.rows, LAMBDA r : Holds(df, expr, r))]

\* the value a call hands back when it raises (no dataset)
NoDf == [columns |-> <<>>, index_name |-> None, rows |-> <<>>]

\* ---------------------------------------------------------- counts table
Zeros(tvars) == [v \in SeqToSet(tvars) |-> 0]

\* position of the row keyed (step, desc), 0 when there is none
RowAt(counts, step, desc) ==
    IF \E i \in 1..Len(counts.rows) :
          counts.rows[i].step = step /\ counts.rows[i].desc = desc
    THEN CHOOSE i \in 1..Len(counts.rows) :
          counts.rows[i].step = step /\ counts.rows[i].desc = desc
    ELSE 0

\* self._counts.loc[(step, desc), :] = 0 : every cell of the row, the row
\* appended at the end when the key is new
LocRowZero(counts, step, desc) ==
    LET z == [step |-> step, desc |-> desc,
              N |-> Zeros(counts.vars), D |-> Zeros(counts.vars)]
        i == RowAt(counts, step, desc)
    IN  IF i = 0 THEN [counts EXCEPT !.rows = Append(@, z)]
                 ELSE [counts EXCEPT !.rows[i] = z]

\* _set_total: self._counts.loc[(current_i, desc), (var, "N")] = val
_set_total(counts, current_i, desc, var, val) ==
    [counts EXCEPT !.rows[RowAt(counts, current_i, desc)].N[var] = val]

\* the difference taken from the Init row instead of the previous row
DiffRowFromInit(counts, i) ==
    [v \in SeqToSet(counts.vars) |->
        IF i = 1 THEN NaN ELSE counts.rows[i].N[v] - counts.rows[1].N[v]]

\* xs("N").diff(axis=0) written into the delta columns: NaN in the first row
DiffRow(counts, i) ==
    [v \in SeqToSet(counts.vars) |->
        IF i = 1 THEN NaN ELSE counts.rows[i].N[v] - counts.rows[i - 1].N[v]]

\* the diff written into the "N" columns (c[1] == _COL_LABELS[0])
SetDeltasIntoTotals(counts) ==
    [counts EXCEPT !.rows =
        [i \in 1..Len(counts.rows) |-> [counts.rows[i] EXCEPT !.N = DiffRow(counts, i)]]]

SetDeltas(counts) ==
    [counts EXCEPT !.rows =
        [i \in 1..Len(counts.rows) |-> [counts.rows[i] EXCEPT !.D = DiffRow(counts, i)]]]

\* ------------------------------------------------------------ __init__
GroupArgs == {Lst(<<>>), Lst(<<"g">>), Str("g")}
NanArgs   == {Lst(<<>>), Lst(<<"x">>), Str("x")}

\* [self._ROW_LABEL] + group_vars + nan_cols: list + str is a TypeError
ColumnVars(group_vars, nan_cols) ==
    IF iterable(group_vars) /\ iterable(nan_cols)
    THEN [raised |-> None, vars |-> <<_ROW_LABEL>> \o group_vars.l \o nan_cols.l]
    ELSE [raised |-> "TypeError", vars |-> <<>>]

AsList(arg) == IF ~iterable(arg) THEN <<arg.s>> ELSE arg.l

InitTable(tvars) ==
    [vars |-> tvars,
     rows |-> << [step |-> 0, desc |-> "Init", N |-> Zeros(tvars), D |-> Zeros(tvars)] >>]

\* no call in progress: what the caller sees between two calls
Idle == [op |-> None, df |-> NoDf, description |-> None, expr |-> None,
         mask_columns |-> Str(None), raised |-> None, after |-> NoDf]

Init ==
    \E group_vars \in GroupArgs, nan_cols \in NanArgs :
        LET cv == ColumnVars(group_vars, nan_cols)
            ok == cv.raised = None
        IN  /\ ctor = [group_vars |-> group_vars, nan_cols |-> nan_cols,
                       raised |-> cv.raised]
            /\ _groupby = IF ok THEN AsList(group_vars) ELSE <<>>
            /\ _nancols = IF ok THEN AsList(nan_cols) ELSE <<>>
            /\ _counts = IF ok THEN InitTable(cv.vars) ELSE [vars |-> <<>>, rows |-> <<>>]
            /\ _current_i = IF ok THEN 1 ELSE 0
            /\ last = Idle
            /\ ret = NoDf
            /\ displayed = <<>>

current_i == _current_i
prev_i == _current_i - 1

\* -------------------------------------------------------------- update
\* the loop over self._groupby: the first missing variable raises, the
\* totals written before it stay
RECURSIVE GroupLoop(_, _, _, _, _)
GroupLoop(counts, i, desc, df, vs) ==
    IF vs = <<>> THEN [counts |-> counts, raised |-> None]
    ELSE IF check_arg_value(Str(Head(vs)), df.columns \o <<df.index_name>>)
         THEN [counts |-> counts, raised |-> ArgumentValueError]
         ELSE GroupLoop(_set_total(counts, i, desc, Head(vs), ngroups(df, Head(vs))),
                        i, desc, df, Tail(vs))

RECURSIVE NanLoop(_, _, _, _, _)
NanLoop(counts, i, desc, df, vs) ==
    IF vs = <<>> THEN [counts |-> counts, raised |-> None]
    ELSE IF check_arg_value(Str(Head(vs)), df.columns)
         THEN [counts |-> counts, raised |-> ArgumentValueError]
         ELSE NanLoop(_set_total(counts, i, desc, Head(vs), count(df, Head(vs))),
                      i, desc, df, Tail(vs))

\* update(df, description) on the reporter (counts, i): the reporter after it,
\* the exception it raised (None when it returned) and the dataset returned
update(counts, i, df, description) ==
    LET c0 == LocRowZero(counts, i, description)
        c1 == _set_total(c0, i, description, _ROW_LABEL, Len(df.rows))
        g  == GroupLoop(c1, i, description, df, _groupby)
        n  == NanLoop(g.counts, i, description, df, _nancols)
    IN  IF g.raised # None
        THEN [counts |-> g.counts, current_i |-> i, raised |-> g.raised, ret |-> NoDf]
        ELSE IF n.raised # None
        THEN [counts |-> n.counts, current_i |-> i, raised |-> n.raised, ret |-> NoDf]
        ELSE [counts |-> SetDeltas(n.counts), current_i |-> i + 1,
              raised |-> None, ret |-> df]

Descriptions == {"a", "b"}

\* a call starts when the previous one has returned; the guards cap the table
Live ==
    /\ ctor.raised = None
    /\ last.op = None
    /\ _current_i <= MaxSteps
    /\ Len(_counts.rows) <= MaxSteps

Update(df, description) ==
    /\ LET u == update(_counts, _current_i, df, description)
       IN  /\ _counts' = u.counts
           /\ _current_i' = u.current_i
           /\ ret' = u.ret
           /\ last' = [Idle EXCEPT !.op = "update", !.df = df, !.after = df,
                                   !.description = description, !.raised = u.raised]
    /\ displayed' = <<>>
    /\ UNCHANGED <<ctor, _groupby, _nancols>>

\* ---------------------------------------------------------- apply_query
QueryDescriptions == {None, "a"}

\* the description never defaulted from the query string
QueryLabelAsGiven(query_str, description) == description

QueryLabel(query_str, description) ==
    IF description = None THEN query_str ELSE description

\* df.query(query_str).pipe(self.update, description); a name the dataset
\* does not have makes query raise before update is reached
ApplyQuery(df, query_str, description) ==
    /\ IF ~Resolves(df, ExprVar(query_str))
       THEN /\ UNCHANGED <<_counts, _current_i>>
            /\ ret' = NoDf
            /\ last' = [Idle EXCEPT !.op = "apply_query", !.df = df, !.after = df,
                                    !.expr = query_str, !.description = description,
                                    !.raised = "UndefinedVariableError"]
       ELSE LET u == update(_counts, _current_i, query(df, query_str),
                            QueryLabel(query_str, description))
            IN  /\ _counts' = u.counts
                /\ _current_i' = u.current_i
                /\ ret' = u.ret
                /\ last' = [Idle EXCEPT !.op = "apply_query", !.df = df, !.after = df,
                                        !.expr = query_str, !.description = description,
                                        !.raised = u.raised]
    /\ displayed' = <<>>
    /\ UNCHANGED <<ctor, _groupby, _nancols>>

\* ----------------------------------------------------------- apply_mask
MaskArgs == {Str("all"), Str("*"), Str("x"), Str("z")}

\* the columns to mask: every column for "*" / "all", a single name as a list
MaskColumns(df, mask_columns) ==
    IF ~iterable(mask_columns) /\ mask_columns.s \in {"*", "all"} THEN df.columns
    ELSE AsList(mask_columns)

\* str(mask_columns) inside the f-string
RECURSIVE Join(_)
Join(l) == IF l = <<>> THEN ""
           ELSE "'" \o Head(l) \o "'" \o (IF Len(l) > 1 THEN ", " ELSE "") \o Join(Tail(l))
Format(v) == IF iterable(v) THEN "[" \o Join(v.l) \o "]" ELSE v.s

MaskLabel(expr, mask_columns) ==
    expr \o " (applied to " \o Format(mask_columns) \o ")"

\* df.index.difference(df.query(expr).index): the labels of df that label no
\* selected row
InvalidRows(df, expr) ==
    { df.rows[i].idx : i \in 1..Len(df.rows) } \
    { df.rows[i].idx : i \in { j \in 1..Len(df.rows) : Holds(df, expr, df.rows[j]) } }

\* df.loc[invalid_rows, mask_columns] = np.nan
LocSetNaN(df, labels, cols) ==
    [df EXCEPT !.rows =
        [i \in 1..Len(df.rows) |->
            IF df.rows[i].idx \in labels
            THEN [df.rows[i] EXCEPT !.g = IF InList("g", cols) THEN NaN ELSE @,
                                    !.x = IF InList("x", cols) THEN NaN ELSE @]
            ELSE df.rows[i]]]

ApplyMask(df, expr, mask_columns) ==
    /\ LET cols == MaskColumns(df, mask_columns)
           bad == \E i \in 1..Len(cols) :
                     check_arg_value(Str(cols[i]), df.columns \o <<"*", "all">>)
           masked == LocSetNaN(df, InvalidRows(df, expr), cols)
           u == update(_counts, _current_i, masked, MaskLabel(expr, mask_columns))
           call == [Idle EXCEPT !.op = "apply_mask", !.df = df, !.expr = expr,
                                !.mask_columns = mask_columns]
       IN  IF bad
           THEN /\ UNCHANGED <<_counts, _current_i>>
                /\ ret' = NoDf
                /\ last' = [call EXCEPT !.after = df, !.raised = ArgumentValueError]
           ELSE IF ~Resolves(df, ExprVar(expr))
           THEN /\ UNCHANGED <<_counts, _current_i>>
                /\ ret' = NoDf
                /\ last' = [call EXCEPT !.after = df, !.raised = "UndefinedVariableError"]
           ELSE /\ _counts' = u.counts
                /\ _current_i' = u.current_i
                /\ ret' = IF u.raised = None THEN masked ELSE NoDf
                /\ last' = [call EXCEPT !.after = masked, !.raised = u.raised]
    /\ displayed' = <<>>
    /\ UNCHANGED <<ctor, _groupby, _nancols>>

\* --------------------------------------------------------------- report
\* "{:d}"
UnsignedFormat(d) == ToString(d)

\* "{:+d}"
SignedFormat(d) == IF d >= 0 THEN "+" \o ToString(d) ELSE ToString(d)

\* self._counts.iloc[1:, :].droplevel(level=0, axis=0).astype(int), the delta
\* columns formatted with an explicit sign
Rendered(counts) ==
    [k \in 1..(Len(counts.rows) - 1) |->
        LET r == counts.rows[k + 1]
        IN  [desc |-> r.desc,
             N |-> r.N,
             D |-> [v \in SeqToSet(counts.vars) |-> SignedFormat(r.D[v])]]]

\* astype(int) raises on a NaN cell
HasNaN(counts) ==
    \E k \in 2..Len(counts.rows) : \E v \in SeqToSet(counts.vars) :
        IsNull(counts.rows[k].N[v]) \/ IsNull(counts.rows[k].D[v])

Report ==
    /\ ctor.raised = None
    /\ last.op = None
    /\ IF HasNaN(_counts)
       THEN /\ displayed' = <<>>
            /\ last' = [Idle EXCEPT !.op = "report", !.raised = "ValueError"]
       ELSE /\ displayed' = Rendered(_counts)
            /\ last' = [Idle EXCEPT !.op = "report"]
    /\ ret' = NoDf
    /\ UNCHANGED <<ctor, _groupby, _nancols, _counts, _current_i>>

\* the call has returned (or raised) to the caller: its results are consumed
\* and the reporter is ready for the next call
Return ==
    /\ last.op # None
    /\ last' = Idle
    /\ ret' = NoDf
    /\ displayed' = <<>>
    /\ UNCHANGED reporter

Next ==
    \/ Live /\ \E df \in DataFrames, description \in Descriptions :
                  Update(df, description)
    \/ Live /\ \E df \in DataFrames, query_str \in Exprs,
                  description \in QueryDescriptions :
                  ApplyQuery(df, query_str, description)
    \/ Live /\ \E df \in DataFrames, expr \in Exprs, mask_columns \in MaskArgs :
                  ApplyMask(df, expr, mask_columns)
    \/ Report
    \/ Return

Spec == Init /\ [][Next]_vars

\* ------------------------------------------- check_arg_value on its own
ArgNames == {"cat", "dog", "a"}
ValidNames == {"cat", "dog", "mouse"}
ArgValues ==
    { Str(n) : n \in ArgNames } \cup
    { Lst(l) : l \in UNION { [1..n -> ArgNames] : n \in 0..MaxArgLen } }
ValidLists == UNION { [1..n -> ValidNames] : n \in 0..MaxArgLen }

CheckArgValue(arg_vals, valid_vals) ==
    /\ last.op = None
    /\ last' = [op |-> "check_arg_value", arg_vals |-> arg_vals,
                valid_vals |-> valid_vals,
                raised |-> IF check_arg_value(arg_vals, valid_vals)
                           THEN ArgumentValueError ELSE None]
    /\ UNCHANGED <<ctor, _groupby, _nancols, _counts, _current_i, ret, displayed>>

InitCheck == Init /\ ctor.raised = None

NextCheck ==
    \/ \E arg_vals \in ArgValues, valid_vals \in ValidLists :
          CheckArgValue(arg_vals, valid_vals)
    \/ Return

SpecCheck == InitCheck /\ [][NextCheck]_vars

\* ================================================================ claims
Called(op) == last.op = op
Succeeded == last.op \in {"update", "apply_query", "apply_mask"} /\ last.raised = None
TrackedVars == SeqToSet(_counts.vars)
NRows == Len(_counts.rows)

\* the rows of df that satisfy expr, in order
RECURSIVE Satisfying(_, _, _)
Satisfying(df, expr, rows) ==
    IF rows = <<>> THEN <<>>
    ELSE (IF Holds(df, expr, Head(rows)) THEN <<Head(rows)>> ELSE <<>>)
         \o Satisfying(df, expr, Tail(rows))

\* the number of rows whose cell c is not null
RECURSIVE NonNull(_, _)
NonNull(rows, c) ==
    IF rows = <<>> THEN 0
    ELSE (IF Cell(Head(rows), c) = NaN THEN 0 ELSE 1) + NonNull(Tail(rows), c)

\* the number of group ids that occur as the value of v in some row
DistinctGroups(df, v) ==
    Cardinality({ k \in GroupIds : \E i \in 1..Len(df.rows) :
                    IF InList(v, df.columns) THEN Cell(df.rows[i], v) = k
                                             ELSE df.rows[i].idx = k })

\* C1: after a successfully completed update / apply_query / apply_mask, every
\* row after the first holds, for every tracked variable, a delta equal to its
\* count minus the count of the row before it; the first recorded step's delta
\* equals its count.
C1_DeltaIsDifference ==
    Succeeded =>
        /\ \A i \in 2..NRows : \A v \in TrackedVars :
              _counts.rows[i].D[v] = _counts.rows[i].N[v] - _counts.rows[i - 1].N[v]
        /\ \A v \in TrackedVars : _counts.rows[2].D[v] = _counts.rows[2].N[v]

C1_Witness ==
    /\ Succeeded
    /\ NRows = 3
    /\ "x" \in TrackedVars
    /\ _counts.rows[2].N["x"] = 2
    /\ _counts.rows[3].D["x"] = -1

\* C2: in every state of a constructed reporter the counts table starts with
\* the row (0, "Init") and every count of that row is 0.
C2_InitRowZero ==
    ctor.raised = None =>
        /\ NRows >= 1
        /\ _counts.rows[1].step = 0
        /\ _counts.rows[1].desc = "Init"
        /\ \A v \in TrackedVars : _counts.rows[1].N[v] = 0

C2_Witness ==
    /\ ctor.raised = None
    /\ NRows = 3
    /\ Called("report")
    /\ _counts.rows[1].D[_ROW_LABEL] = NaN
    /\ _counts.rows[3].N[_ROW_LABEL] = 2

C4_OneRowPerUpdate ==
    (Called("update") /\ last.raised = None) =>
        /\ NRows = _current_i
        /\ \A i \in 1..NRows : _counts.rows[i].step = i - 1

\* C5: apply_query(df, query_str, description) leaves the reporter as
\* update(filtered, label) would, filtered being the rows of df that satisfy
\* query_str and label the description, or query_str when it is None; a
\* successful call records one step, returns filtered and leaves df as it was.
C5_QueryIsUpdate ==
    [][(last.op = None /\ last'.op = "apply_query"
            /\ Resolves(last'.df, ExprVar(last'.expr))) =>
        LET df == last'.df
            filtered == [columns |-> df.columns, index_name |-> df.index_name,
                         rows |-> Satisfying(df, last'.expr, df.rows)]
            label == IF last'.description = None THEN last'.expr
                                                 ELSE last'.description
            u == update(_counts, _current_i, filtered, label)
        IN  /\ _counts' = u.counts
            /\ _current_i' = u.current_i
            /\ last'.raised = u.raised
            /\ last'.after = df
            /\ u.raised = None => /\ ret' = filtered
                                  /\ _current_i' = _current_i + 1
                                  /\ \E i \in 1..Len(_counts'.rows) :
                                        /\ _counts'.rows[i].step = _current_i
                                        /\ _counts'.rows[i].desc = label
                                        /\ _counts'.rows[i].N[_ROW_LABEL]
                                              = Len(filtered.rows)]_vars

C5_Witness ==
    /\ Called("apply_query") /\ last.raised = None
    /\ last.description = None
    /\ Len(last.df.rows) = 2 /\ Len(ret.rows) = 1
    /\ _counts.rows[NRows].desc = "x > 1"
    /\ _counts.rows[NRows].N[_ROW_LABEL] = 1

\* C6: apply_mask(df, expr, mask_columns) nulls the cells in mask_columns of
\* every row that does not satisfy expr, leaves every other cell unchanged,
\* keeps the number of rows, and records one step labelled
\* "<expr> (applied to <mask_columns>)", for every df.
C6_MaskByRow ==
    (Called("apply_mask") /\ last.raised = None) =>
        LET df == last.df
            m == last.after
            cols == IF last.mask_columns.s \in {"all", "*"}
                    THEN SeqToSet(df.columns) ELSE {last.mask_columns.s}
        IN  /\ Len(m.rows) = Len(df.rows)
            /\ \A i \in 1..Len(df.rows) :
                  IF Holds(df, last.expr, df.rows[i])
                  THEN m.rows[i] = df.rows[i]
                  ELSE /\ m.rows[i].idx = df.rows[i].idx
                       /\ \A c \in {"g", "x"} :
                             Cell(m.rows[i], c) =
                                IF c \in cols THEN NaN ELSE Cell(df.rows[i], c)
            /\ ret = m
            /\ \E i \in 1..NRows :
                  /\ _counts.rows[i].step = prev_i
                  /\ _counts.rows[i].desc =
                        last.expr \o " (applied to " \o last.mask_columns.s \o ")"

\* C7: report() displays the rows after the Init row in recording order,
\* without the step index, every delta with an explicit sign, and leaves the
\* counts table and current_i unchanged.
C7_ReportFrame ==
    [][(last.op = None /\ last'.op = "report") =>
        /\ _counts' = _counts
        /\ _current_i' = _current_i
        /\ last'.raised = None
        /\ Len(displayed') = NRows - 1
        /\ \A k \in 1..(NRows - 1) :
              /\ displayed'[k].desc = _counts.rows[k + 1].desc
              /\ displayed'[k].N = _counts.rows[k + 1].N
              /\ \A v \in TrackedVars :
                    LET d == _counts.rows[k + 1].D[v]
                    IN  displayed'[k].D[v] =
                           IF d < 0 THEN "-" \o ToString(0 - d)
                                    ELSE "+" \o ToString(d)]_vars

C7_Witness ==
    /\ Called("report")
    /\ Len(displayed) = 2
    /\ displayed[1].D[_ROW_LABEL] = "+2"
    /\ displayed[2].D[_ROW_LABEL] = "-1"
    /\ NRows = 3

C9_FailedUpdateNoEffect ==
    [][(last.op = None /\ last'.op = "update" /\ last'.raised = ArgumentValueError) =>
        /\ _counts' = _counts
        /\ _current_i' = _current_i]_vars

\* C10: constructing the reporter with a single name that is not a list is
\* accepted and gives the reporter the one-element list gives.
C10_StringAccepted ==
    (ctor.group_vars.kind = "str" \/ ctor.nan_cols.kind = "str") =>
        /\ ctor.raised = None
        /\ _groupby = AsList(ctor.group_vars)
        /\ _nancols = AsList(ctor.nan_cols)
        /\ _counts = InitTable(<<_ROW_LABEL>> \o AsList(ctor.group_vars)
                                              \o AsList(ctor.nan_cols))
        /\ _current_i = 1

====
